---- MODULE Spec2Model ----
(***************************************************************************)
(* Quick Kick Mogul (src/src/App.tsx): the game state held by the App      *)
(* component, its handlers, its two interval timers and its localStorage   *)
(* snapshot, as a state machine.                                           *)
(*                                                                         *)
(* Units.  money and every cost or reward are counted in hundredths of a   *)
(* currency unit, so that the rewards (factors 1.5, 1, 0.5, 0.1 and        *)
(* multipliers 0.5 .. 3.0) stay integers; the arithmetic is exact, and of  *)
(* the rounding of IEEE doubles only that of opponentOverall * 0.7, which  *)
(* decides an outcome, is modelled.  matchProgress is counted in           *)
(* 1/MATCH_DURATION_SECONDS of a percent, so 100% is                       *)
(* 100 * MATCH_DURATION_SECONDS.  Factors of the league table are in       *)
(* tenths.                                                                 *)
(*                                                                         *)
(* React.  Every handler and timer callback runs to completion and React   *)
(* renders and runs the effects before the next one starts, so one action  *)
(* is one handler with the render and the save effect that follow it.  A   *)
(* handler reads the state of the latest render; the callback of the match *)
(* interval keeps the closure of the render that created the interval.     *)
(***************************************************************************)
EXTENDS Integers, Sequences, FiniteSets, TLC

VARIABLES
    money,                  \* useState(0), hundredths
    clickPower,             \* useState(1)
    stadiumCapacity,        \* useState(100)
    passiveIncomePerSecond, \* useState(0)
    currentLeagueLevel,     \* useState(initializer)
    players,                \* useState(initializer): sequence of Player
    matchInProgress,        \* useState(false)
    matchTimeLeft,          \* useState(MATCH_DURATION_SECONDS)
    matchProgress,          \* useState(0), in 1/MATCH_DURATION_SECONDS percent
    matchIntervalRef,       \* useRef: NoTimer, or the closure of the running interval
    saved,                  \* localStorage["quickKickMogulSave"]: NoSave or the blob
    bootBlob,               \* the blob the last page load found in localStorage
    lastOp,                 \* the handler or callback that ran last
    lastSlot,               \* the slotIndex it was called with, NoSlot if it takes none
    alertMsg,               \* what that handler passed to alert(), "none" if nothing
    mounted,                \* the App component rendered and is on the page
    resolved,               \* the locals of a finishMatch call whose opponent was forced
    budget                  \* state-changing user actions and page loads still allowed

gameState == <<money, clickPower, stadiumCapacity, passiveIncomePerSecond,
               currentLeagueLevel, players, matchInProgress, matchTimeLeft>>

vars == <<money, clickPower, stadiumCapacity, passiveIncomePerSecond,
          currentLeagueLevel, players, matchInProgress, matchTimeLeft,
          matchProgress, matchIntervalRef, saved, bootBlob, lastOp, lastSlot,
          alertMsg, mounted, resolved, budget>>

----------------------------------------------------------------------------
(* Bounds of the model *)

\* State-changing user actions and page loads explored per behaviour.
MaxActions == 2

\* Math.random() is sampled at every DrawStep-th value of its integer range.
DrawStep == 5

----------------------------------------------------------------------------
(* Program constants *)

MATCH_DURATION_SECONDS == 5 * 60

Cents(x) == x * 100

\* A useRef or a localStorage entry holds nothing (<<>>) or one value (<<v>>).
NoTimer == <<>>
NoSave == <<>>

\* The handler that ran last takes no slotIndex.
NoSlot == 0 - 1

\* The catalog with a promotion out of the third tier cheaper than the one
\* out of the second.
LEAGUE_TIERS_CheaperThirdTier ==
    << [level |-> 1, name |-> "Amateur League", baseWinReward |-> 100,
        overallMultiplier |-> 5, minFactor |-> 4, maxFactor |-> 7,
        promotionThresholdOverall |-> 400, promotionCost |-> 5000],
       [level |-> 2, name |-> "Regional League", baseWinReward |-> 500,
        overallMultiplier |-> 10, minFactor |-> 6, maxFactor |-> 9,
        promotionThresholdOverall |-> 800, promotionCost |-> 20000],
       [level |-> 3, name |-> "National League", baseWinReward |-> 2000,
        overallMultiplier |-> 20, minFactor |-> 8, maxFactor |-> 11,
        promotionThresholdOverall |-> 1500, promotionCost |-> 10000],
       [level |-> 4, name |-> "Continental Championship", baseWinReward |-> 5000,
        overallMultiplier |-> 30, minFactor |-> 10, maxFactor |-> 13,
        promotionThresholdOverall |-> 2500, promotionCost |-> 500000] >>

\* LEAGUE_TIERS; overallMultiplier, minFactor and maxFactor in tenths.
LEAGUE_TIERS ==
    << [level |-> 1, name |-> "Amateur League", baseWinReward |-> 100,
        overallMultiplier |-> 5, minFactor |-> 4, maxFactor |-> 7,
        promotionThresholdOverall |-> 400, promotionCost |-> 5000],
       [level |-> 2, name |-> "Regional League", baseWinReward |-> 500,
        overallMultiplier |-> 10, minFactor |-> 6, maxFactor |-> 9,
        promotionThresholdOverall |-> 800, promotionCost |-> 20000],
       [level |-> 3, name |-> "National League", baseWinReward |-> 2000,
        overallMultiplier |-> 20, minFactor |-> 8, maxFactor |-> 11,
        promotionThresholdOverall |-> 1500, promotionCost |-> 100000],
       [level |-> 4, name |-> "Continental Championship", baseWinReward |-> 5000,
        overallMultiplier |-> 30, minFactor |-> 10, maxFactor |-> 13,
        promotionThresholdOverall |-> 2500, promotionCost |-> 500000] >>

\* LEAGUE_TIERS.find(tier => tier.level === lvl): the set of matches (empty or one).
FindTier(lvl) == {i \in 1..Len(LEAGUE_TIERS) : LEAGUE_TIERS[i].level = lvl}

\* players.reduce((sum, p) => sum + p.overall, 0)
RECURSIVE TeamOverall(_)
TeamOverall(ps) ==
    IF ps = <<>> THEN 0 ELSE Head(ps).overall + TeamOverall(Tail(ps))

\* Math.floor(Math.random() * n): the sampled values of 0 .. n-1.
RandomBelow(n) == {k \in 0..(n - 1) : k % DrawStep = 0}

\* generateRandomPlayer(minOverall, maxOverall, position) with
\* Math.floor(Math.random() * (maxOverall - minOverall + 1)) = draw.  id and
\* name are fresh random strings: the token stands for both.
generateRandomPlayer(minOverall, maxOverall, position, draw, token) ==
    [id |-> token, name |-> token, overall |-> draw + minOverall,
     value |-> (draw + minOverall) * 100, position |-> position]

\* generateInitialLineup() with the seven random draws d[1] .. d[7].
generateInitialLineup(d) ==
    << generateRandomPlayer(50, 60, "GK", d[1], 1),
       generateRandomPlayer(45, 55, "DEF", d[2], 2),
       generateRandomPlayer(45, 55, "DEF", d[3], 3),
       generateRandomPlayer(55, 65, "MID", d[4], 4),
       generateRandomPlayer(55, 65, "MID", d[5], 5),
       generateRandomPlayer(60, 70, "FWD", d[6], 6),
       generateRandomPlayer(60, 70, "FWD", d[7], 7) >>

\* The lineups explored: the first k players drew the top of their range, the
\* others the bottom (team overall 370 + 10 * k).
InitialLineups ==
    { generateInitialLineup([i \in 1..7 |-> IF i <= k THEN 10 ELSE 0]) : k \in {0, 5} }

----------------------------------------------------------------------------
(* Persistence: the save effect, the useState initializers, the load effect *)

\* The gameState object of the save effect, for a render state s.
Snapshot(s) ==
    [money |-> s.money, clickPower |-> s.clickPower,
     stadiumCapacity |-> s.stadiumCapacity,
     passiveIncomePerSecond |-> s.passiveIncomePerSecond,
     players |-> s.players, matchInProgress |-> s.matchInProgress,
     matchTimeLeft |-> s.matchTimeLeft,
     currentLeagueLevel |-> s.currentLeagueLevel]

\* parsedState.f || d for a number, a boolean and the players array: a missing
\* field, 0 and false are falsy; an array never is.
NumOr(p, f, d) == IF f \in DOMAIN p /\ p[f] # 0 THEN p[f] ELSE d
BoolOr(p, f, d) == IF f \in DOMAIN p /\ p[f] THEN p[f] ELSE d
ArrayOr(p, f, d) == IF f \in DOMAIN p THEN p[f] ELSE d

\* A stored string that is not JSON.  localStorage.getItem returns it, it is
\* truthy, and JSON.parse(savedGame) throws a SyntaxError.
CorruptSave == [unparsable |-> TRUE]

\* JSON.parse(savedGame) returns: stored holds a blob that is JSON.
Parses(stored) == "unparsable" \notin DOMAIN stored[1]

\* The first render throws: the initializer of currentLeagueLevel runs
\* JSON.parse on the stored string outside any try block, and nothing in the
\* component catches what it throws.
RenderThrows(stored) == stored # NoSave /\ ~Parses(stored)

\* The state of the first render: the useState defaults, and the lazy
\* initializers of currentLeagueLevel and players reading localStorage.
InitialRender(stored, lineup) ==
    [money |-> 0, clickPower |-> 1, stadiumCapacity |-> 100,
     passiveIncomePerSecond |-> 0,
     currentLeagueLevel |->
        IF stored # NoSave THEN NumOr(stored[1], "currentLeagueLevel", 1) ELSE 1,
     players |->
        IF stored # NoSave THEN ArrayOr(stored[1], "players", lineup) ELSE lineup,
     matchInProgress |-> FALSE, matchTimeLeft |-> MATCH_DURATION_SECONDS,
     matchProgress |-> 0, matchIntervalRef |-> NoTimer]

\* What the callback of an interval created in render state s closes over:
\* finishMatch of that render, which reads its players and currentLeagueLevel.
Closure(s) == [players |-> s.players, currentLeagueLevel |-> s.currentLeagueLevel]

\* Effect 4 (load) run in render state s with localStorage holding stored.
LoadEffect(stored, s) ==
    IF stored # NoSave
    THEN LET p == stored[1]
             resume == /\ BoolOr(p, "matchInProgress", FALSE)
                       /\ "matchTimeLeft" \in DOMAIN p
                       /\ p.matchTimeLeft > 0
         IN [s EXCEPT
               !.money = NumOr(p, "money", 0),
               !.clickPower = NumOr(p, "clickPower", 1),
               !.stadiumCapacity = NumOr(p, "stadiumCapacity", 100),
               !.passiveIncomePerSecond = NumOr(p, "passiveIncomePerSecond", 0),
               !.matchInProgress = BoolOr(p, "matchInProgress", FALSE),
               !.matchTimeLeft = NumOr(p, "matchTimeLeft", MATCH_DURATION_SECONDS),
               !.matchProgress =
                   IF resume
                   THEN (MATCH_DURATION_SECONDS - p.matchTimeLeft) * 100
                   ELSE s.matchProgress,
               !.matchIntervalRef =
                   IF resume THEN <<Closure(s)>> ELSE s.matchIntervalRef]
    ELSE [s EXCEPT !.passiveIncomePerSecond = s.stadiumCapacity \div 100]

\* Effect 3 (save) run in render state s: the new content of localStorage.
SaveEffect(s) == <<Snapshot(s)>>

\* The effects of the mount, in the order the component declares them: the
\* save effect (effect 3) writes the first render's state, then the load
\* effect (effect 4) reads localStorage.  The result is the settled state.
MountEffects(s0) == LoadEffect(SaveEffect(s0), s0)

\* A page load with localStorage holding stored: the settled render state.
Mount(stored, lineup) == MountEffects(InitialRender(stored, lineup))

\* What the variables hold when the first render threw: React unmounts the
\* tree, no state of the component exists, no effect has run.  The variables
\* keep the useState defaults and an empty roster.
Unmounted == InitialRender(NoSave, <<>>)

----------------------------------------------------------------------------
(* The render that follows a handler, and the save effect after it *)

\* The render state the variables hold.
Current ==
    [money |-> money, clickPower |-> clickPower,
     stadiumCapacity |-> stadiumCapacity,
     passiveIncomePerSecond |-> passiveIncomePerSecond,
     currentLeagueLevel |-> currentLeagueLevel, players |-> players,
     matchInProgress |-> matchInProgress, matchTimeLeft |-> matchTimeLeft,
     matchProgress |-> matchProgress, matchIntervalRef |-> matchIntervalRef]

\* The variables take render state s.
Render(s) ==
    /\ money' = s.money
    /\ clickPower' = s.clickPower
    /\ stadiumCapacity' = s.stadiumCapacity
    /\ passiveIncomePerSecond' = s.passiveIncomePerSecond
    /\ currentLeagueLevel' = s.currentLeagueLevel
    /\ players' = s.players
    /\ matchInProgress' = s.matchInProgress
    /\ matchTimeLeft' = s.matchTimeLeft
    /\ matchProgress' = s.matchProgress
    /\ matchIntervalRef' = s.matchIntervalRef

\* Effect 3 with matchTimeLeft missing from its dependency list: a render
\* that changes nothing else writes nothing.
SaveAfter_NoMatchTimeDependency(s) ==
    saved' = IF [Snapshot(s) EXCEPT !.matchTimeLeft = 0]
                  # [Snapshot(Current) EXCEPT !.matchTimeLeft = 0]
             THEN SaveEffect(s) ELSE saved

\* Effect 3 after the render to s: it runs when one of its dependencies
\* changed, and then overwrites localStorage.
SaveAfter(s) ==
    saved' = IF Snapshot(s) # Snapshot(Current) THEN SaveEffect(s) ELSE saved

\* A handler called with slotIndex that ends in render state s, having alerted
\* msg.  Handlers and timer callbacks exist only while the component is mounted.
HandledAt(op, slotIndex, msg, s) ==
    /\ mounted
    /\ Render(s)
    /\ SaveAfter(s)
    /\ lastOp' = op
    /\ lastSlot' = slotIndex
    /\ alertMsg' = msg
    /\ UNCHANGED <<bootBlob, mounted, resolved>>

\* A handler or timer callback that takes no slotIndex.
Handled(op, msg, s) == HandledAt(op, NoSlot, msg, s)

\* The moments of a running match at which clicks, page loads and ticks of the
\* passive income are interleaved with the ticks of the match: right after the
\* start, in the middle, before the last two ticks and before the last one.
InterleavedAt == {MATCH_DURATION_SECONDS, MATCH_DURATION_SECONDS \div 2, 2, 1}

\* A state-changing user action is taken only while the budget lasts.
Spend(changed) ==
    /\ matchInProgress => matchTimeLeft \in InterleavedAt
    /\ changed => budget > 0
    /\ budget' = IF changed THEN budget - 1 ELSE budget

----------------------------------------------------------------------------
(* Clicks and purchases *)

\* handleTicketSaleClick
handleTicketSaleClick ==
    /\ Spend(TRUE)
    /\ Handled("sellTickets", "none",
               [Current EXCEPT !.money = money + Cents(clickPower)])

\* buyClickPowerUpgrade with a cost of 10 whatever the click power.
buyClickPowerUpgrade_FlatCost ==
    LET cost == Cents(10)
        ok == money >= cost
    IN /\ Spend(ok)
       /\ IF ok
          THEN Handled("buyClickPowerUpgrade", "none",
                       [Current EXCEPT !.money = money - cost,
                                       !.clickPower = clickPower + 1])
          ELSE Handled("buyClickPowerUpgrade", "Not enough money to boost ticket sales!",
                       Current)

\* buyClickPowerUpgrade
buyClickPowerUpgrade ==
    LET cost == Cents(10 * clickPower)
        ok == money >= cost
    IN /\ Spend(ok)
       /\ IF ok
          THEN Handled("buyClickPowerUpgrade", "none",
                       [Current EXCEPT !.money = money - cost,
                                       !.clickPower = clickPower + 1])
          ELSE Handled("buyClickPowerUpgrade", "Not enough money to boost ticket sales!",
                       Current)

\* buyStadiumUpgrade without its test of money: it buys on credit.
buyStadiumUpgrade_NoFundsCheck ==
    LET cost == 50 * stadiumCapacity
        newCapacity == stadiumCapacity + 100
    IN /\ Spend(TRUE)
       /\ Handled("buyStadiumUpgrade", "none",
                  [Current EXCEPT !.money = money - cost,
                                  !.stadiumCapacity = newCapacity,
                                  !.passiveIncomePerSecond = newCapacity \div 100])

\* buyStadiumUpgrade; 50 * (stadiumCapacity / 100) currency units.
buyStadiumUpgrade ==
    LET cost == 50 * stadiumCapacity
        ok == money >= cost
        newCapacity == stadiumCapacity + 100
    IN /\ Spend(ok)
       /\ IF ok
          THEN Handled("buyStadiumUpgrade", "none",
                       [Current EXCEPT !.money = money - cost,
                                       !.stadiumCapacity = newCapacity,
                                       !.passiveIncomePerSecond = newCapacity \div 100])
          ELSE Handled("buyStadiumUpgrade", "Not enough money to expand stadium!",
                       Current)

----------------------------------------------------------------------------
(* Roster: slotIndex is 0-based as in the code, players is 1-based here *)

\* A token no player of the roster carries.
RECURSIVE MaxId(_)
MaxId(ps) ==
    IF ps = <<>> THEN 0
    ELSE IF Head(ps).id > MaxId(Tail(ps)) THEN Head(ps).id ELSE MaxId(Tail(ps))

\* The new player pushed onto the roster instead of mapped into the slot.
ReplaceAt_Appends(ps, slotIndex, newPlayer) == Append(ps, newPlayer)

\* prevPlayers.map((p, index) => index === slotIndex ? newPlayer : p)
ReplaceAt(ps, slotIndex, newPlayer) ==
    [i \in 1..Len(ps) |-> IF i - 1 = slotIndex THEN newPlayer ELSE ps[i]]

\* recruitNewPlayerInSlot taking the value of the old player off money.
recruitNewPlayerInSlot_ChargesOldValue(slotIndex, draw) ==
    IF slotIndex + 1 \notin DOMAIN players
    THEN /\ Spend(FALSE)
         /\ HandledAt("recruitPlayer", slotIndex, "none", Current)
    ELSE LET oldPlayer == players[slotIndex + 1]
             newPlayer == generateRandomPlayer(oldPlayer.overall + 5,
                                               oldPlayer.overall + 15,
                                               oldPlayer.position, draw,
                                               MaxId(players) + 1)
             ok == money >= Cents(newPlayer.value)
         IN /\ Spend(ok)
            /\ IF ok
               THEN HandledAt("recruitPlayer", slotIndex, "Recruited",
                              [Current EXCEPT
                                 !.money = money - Cents(oldPlayer.value),
                                 !.players = ReplaceAt(players, slotIndex, newPlayer)])
               ELSE HandledAt("recruitPlayer", slotIndex,
                              "Not enough money to recruit", Current)

\* recruitNewPlayerInSlot asking for a forward whatever the slot holds.
recruitNewPlayerInSlot_ForwardCandidate(slotIndex, draw) ==
    IF slotIndex + 1 \notin DOMAIN players
    THEN /\ Spend(FALSE)
         /\ HandledAt("recruitPlayer", slotIndex, "none", Current)
    ELSE LET oldPlayer == players[slotIndex + 1]
             newPlayer == generateRandomPlayer(oldPlayer.overall + 5,
                                               oldPlayer.overall + 15,
                                               "FWD", draw,
                                               MaxId(players) + 1)
             ok == money >= Cents(newPlayer.value)
         IN /\ Spend(ok)
            /\ IF ok
               THEN HandledAt("recruitPlayer", slotIndex, "Recruited",
                            [Current EXCEPT
                               !.money = money - Cents(newPlayer.value),
                               !.players = ReplaceAt(players, slotIndex, newPlayer)])
               ELSE HandledAt("recruitPlayer", slotIndex, "Not enough money to recruit", Current)

\* recruitNewPlayerInSlot drawing the candidate from oldPlayer.overall - 5 to
\* oldPlayer.overall + 5.
recruitNewPlayerInSlot_WeakerCandidate(slotIndex, draw) ==
    IF slotIndex + 1 \notin DOMAIN players
    THEN /\ Spend(FALSE)
         /\ HandledAt("recruitPlayer", slotIndex, "none", Current)
    ELSE LET oldPlayer == players[slotIndex + 1]
             newPlayer == generateRandomPlayer(oldPlayer.overall - 5,
                                               oldPlayer.overall + 5,
                                               oldPlayer.position, draw,
                                               MaxId(players) + 1)
             ok == money >= Cents(newPlayer.value)
         IN /\ Spend(ok)
            /\ IF ok
               THEN HandledAt("recruitPlayer", slotIndex, "Recruited",
                            [Current EXCEPT
                               !.money = money - Cents(newPlayer.value),
                               !.players = ReplaceAt(players, slotIndex, newPlayer)])
               ELSE HandledAt("recruitPlayer", slotIndex, "Not enough money to recruit", Current)

\* recruitNewPlayerInSlot(slotIndex) with the random draw of the new overall.
recruitNewPlayerInSlot(slotIndex, draw) ==
    IF slotIndex + 1 \notin DOMAIN players
    THEN /\ Spend(FALSE)
         /\ HandledAt("recruitPlayer", slotIndex, "none", Current)
    ELSE LET oldPlayer == players[slotIndex + 1]
             newPlayer == generateRandomPlayer(oldPlayer.overall + 5,
                                               oldPlayer.overall + 15,
                                               oldPlayer.position, draw,
                                               MaxId(players) + 1)
             ok == money >= Cents(newPlayer.value)
         IN /\ Spend(ok)
            /\ IF ok
               THEN HandledAt("recruitPlayer", slotIndex, "Recruited",
                            [Current EXCEPT
                               !.money = money - Cents(newPlayer.value),
                               !.players = ReplaceAt(players, slotIndex, newPlayer)])
               ELSE HandledAt("recruitPlayer", slotIndex, "Not enough money to recruit", Current)

\* trainPlayerInSlot with the cost computed from the overall after training.
trainPlayerInSlot_ChargesNewOverall(slotIndex) ==
    IF slotIndex + 1 \notin DOMAIN players
    THEN /\ Spend(FALSE)
         /\ HandledAt("trainPlayer", slotIndex, "none", Current)
    ELSE LET playerToTrain == players[slotIndex + 1]
             trainCost == Cents((playerToTrain.overall + 1) * 5)
             ok == money >= trainCost
             trained == [playerToTrain EXCEPT !.overall = @ + 1, !.value = @ + 100]
         IN /\ Spend(ok)
            /\ IF ok
               THEN HandledAt("trainPlayer", slotIndex, "Trained",
                              [Current EXCEPT
                                 !.money = money - trainCost,
                                 !.players = ReplaceAt(players, slotIndex, trained)])
               ELSE HandledAt("trainPlayer", slotIndex, "Not enough money to train",
                              Current)

\* trainPlayerInSlot without its test of money >= trainCost.
trainPlayerInSlot_NoFundsCheck(slotIndex) ==
    IF slotIndex + 1 \notin DOMAIN players
    THEN /\ Spend(FALSE)
         /\ HandledAt("trainPlayer", slotIndex, "none", Current)
    ELSE LET playerToTrain == players[slotIndex + 1]
             trainCost == Cents(playerToTrain.overall * 5)
             trained == [playerToTrain EXCEPT !.overall = @ + 1, !.value = @ + 100]
         IN /\ Spend(TRUE)
            /\ HandledAt("trainPlayer", slotIndex, "Trained",
                         [Current EXCEPT
                            !.money = money - trainCost,
                            !.players = ReplaceAt(players, slotIndex, trained)])

\* trainPlayerInSlot without the "value: p.value + 100" of the trained player.
trainPlayerInSlot_KeepsValue(slotIndex) ==
    IF slotIndex + 1 \notin DOMAIN players
    THEN /\ Spend(FALSE)
         /\ HandledAt("trainPlayer", slotIndex, "none", Current)
    ELSE LET playerToTrain == players[slotIndex + 1]
             trainCost == Cents(playerToTrain.overall * 5)
             ok == money >= trainCost
             trained == [playerToTrain EXCEPT !.overall = @ + 1]
         IN /\ Spend(ok)
            /\ IF ok
               THEN HandledAt("trainPlayer", slotIndex, "Trained",
                              [Current EXCEPT
                                 !.money = money - trainCost,
                                 !.players = ReplaceAt(players, slotIndex, trained)])
               ELSE HandledAt("trainPlayer", slotIndex, "Not enough money to train",
                              Current)

\* trainPlayerInSlot taking the last player for a slotIndex past the roster.
trainPlayerInSlot_ClampsSlot(slotIndex) ==
    IF players = <<>>
    THEN /\ Spend(FALSE)
         /\ HandledAt("trainPlayer", slotIndex, "none", Current)
    ELSE LET slot == IF slotIndex + 1 \in DOMAIN players
                     THEN slotIndex ELSE Len(players) - 1
             playerToTrain == players[slot + 1]
             trainCost == Cents(playerToTrain.overall * 5)
             ok == money >= trainCost
             trained == [playerToTrain EXCEPT !.overall = @ + 1, !.value = @ + 100]
         IN /\ Spend(ok)
            /\ IF ok
               THEN HandledAt("trainPlayer", slotIndex, "Trained",
                              [Current EXCEPT
                                 !.money = money - trainCost,
                                 !.players = ReplaceAt(players, slot, trained)])
               ELSE HandledAt("trainPlayer", slotIndex, "Not enough money to train",
                              Current)

\* trainPlayerInSlot(slotIndex)
trainPlayerInSlot(slotIndex) ==
    IF slotIndex + 1 \notin DOMAIN players
    THEN /\ Spend(FALSE)
         /\ HandledAt("trainPlayer", slotIndex, "none", Current)
    ELSE LET playerToTrain == players[slotIndex + 1]
             trainCost == Cents(playerToTrain.overall * 5)
             ok == money >= trainCost
             trained == [playerToTrain EXCEPT !.overall = @ + 1, !.value = @ + 100]
         IN /\ Spend(ok)
            /\ IF ok
               THEN HandledAt("trainPlayer", slotIndex, "Trained",
                            [Current EXCEPT
                               !.money = money - trainCost,
                               !.players = ReplaceAt(players, slotIndex, trained)])
               ELSE HandledAt("trainPlayer", slotIndex, "Not enough money to train", Current)

----------------------------------------------------------------------------
(* The match *)

\* The largest power of two that is not above n (n >= 1).
RECURSIVE Pow2Below(_)
Pow2Below(n) == IF n < 2 THEN 1 ELSE 2 * Pow2Below(n \div 2)

\* opponentOverall * 0.7 in IEEE doubles is below the exact product.  The
\* double 0.7 is slightly below 7/10, so the product of a multiple of ten,
\* 10 * k, rounds to 7 * k or to the double just below 7 * k: to the latter
\* when 4 * k exceeds the largest power of two not above 7 * k (90 * 0.7 is
\* 62.99999999999999).  The doubles 1.1 and 0.9 are slightly above 11/10 and
\* 9/10: their products with an integer are never below the exact ones, and
\* the tests against them come out as in exact arithmetic.
Times07RoundsDown(opponentOverall) ==
    /\ opponentOverall > 0
    /\ opponentOverall % 10 = 0
    /\ 4 * (opponentOverall \div 10) > Pow2Below(7 * (opponentOverall \div 10))

\* The outcome tests with the test of the win before the test of the dominant
\* win: first match wins, so no match is a dominant win.
Outcome_WinTestFirst(teamOverall, opponentOverall) ==
    IF 10 * teamOverall > 9 * opponentOverall THEN "WIN"
    ELSE IF 10 * teamOverall > 11 * opponentOverall THEN "DOMINANT_WIN"
    ELSE IF 10 * teamOverall > 7 * opponentOverall THEN "DRAW"
    ELSE "LOSS"

\* The outcome tests with the test of the draw reversed (< for >).
Outcome_DrawTestReversed(teamOverall, opponentOverall) ==
    IF 10 * teamOverall > 11 * opponentOverall THEN "DOMINANT_WIN"
    ELSE IF 10 * teamOverall > 9 * opponentOverall THEN "WIN"
    ELSE IF 10 * teamOverall < 7 * opponentOverall THEN "DRAW"
    ELSE "LOSS"

\* The outcome tests of finishMatch, first match wins: teamOverall against
\* opponentOverall * 1.1, * 0.9, * 0.7, as IEEE doubles compare them.
Outcome(teamOverall, opponentOverall) ==
    IF 10 * teamOverall > 11 * opponentOverall THEN "DOMINANT_WIN"
    ELSE IF 10 * teamOverall > 9 * opponentOverall THEN "WIN"
    ELSE IF \/ 10 * teamOverall > 7 * opponentOverall
            \/ (10 * teamOverall = 7 * opponentOverall
                  /\ Times07RoundsDown(opponentOverall))
    THEN "DRAW"
    ELSE "LOSS"

\* The factor of the outcome's reward, in tenths.
RewardFactor(outcome) ==
    CASE outcome = "DOMINANT_WIN" -> 15
      [] outcome = "WIN" -> 10
      [] outcome = "DRAW" -> 5
      [] OTHER -> 1

\* matchBonus, in hundredths:
\* factor * (baseWinReward + teamOverall * overallMultiplier).
MatchBonus(teamOverall, tier, outcome) ==
    RewardFactor(outcome) * (10 * tier.baseWinReward + teamOverall * tier.overallMultiplier)

\* teamOverall * maxFactor is an integer, and the double product is that
\* integer (a product with 0.7 may be the double below it).
MaxProductIsInteger(teamOverall, tier) ==
    /\ (teamOverall * tier.maxFactor) % 10 = 0
    /\ ~(tier.maxFactor = 7 /\ Times07RoundsDown(teamOverall))

\* The opponent with the two products added where the code subtracts them:
\* Math.floor(Math.random() * (t * maxFactor + t * minFactor) + t * minFactor).
OpponentRange_SumOfProducts(teamOverall, tier) ==
    ((teamOverall * tier.minFactor) \div 10) ..
        ((teamOverall * (tier.maxFactor + 2 * tier.minFactor) - 1) \div 10)

\* Math.floor(Math.random() * (t * maxFactor - t * minFactor) + t * minFactor):
\* the integers from floor(t * minFactor) up to, not including, t * maxFactor,
\* and t * maxFactor itself when the double product is that integer: with
\* Math.random() at its largest value (1 - 2^-53, or 1 - 2^-52) the sum of
\* the doubles rounds up to t * maxFactor.  No double sum is above it, and
\* none is below t * minFactor.
OpponentRange(teamOverall, tier) ==
    ((teamOverall * tier.minFactor) \div 10) ..
        (IF MaxProductIsInteger(teamOverall, tier)
         THEN (teamOverall * tier.maxFactor) \div 10
         ELSE (teamOverall * tier.maxFactor - 1) \div 10)

\* What finishMatch can alert and add to money, run in a render whose players
\* and currentLeagueLevel are those of c.
FinishResults(c) ==
    LET teamOverall == TeamOverall(c.players)
        found == FindTier(c.currentLeagueLevel)
    IN IF teamOverall = 0
       THEN {[alert |-> "Match skipped: No players in your squad!", matchBonus |-> 0]}
       ELSE IF found = {}
       THEN {[alert |-> "Error: League data missing. Match aborted.", matchBonus |-> 0]}
       ELSE LET currentTier == LEAGUE_TIERS[CHOOSE i \in found : TRUE]
            IN {[alert |-> Outcome(teamOverall, opp),
                 matchBonus |-> MatchBonus(teamOverall, currentTier,
                                           Outcome(teamOverall, opp))] :
                opp \in OpponentRange(teamOverall, currentTier)}

\* The value matchTimeLeft settles on at the completing tick.  The updater of
\* setMatchTimeLeft calls finishMatch, which calls
\* setMatchTimeLeft(MATCH_DURATION_SECONDS), and then returns 0.  React runs an
\* updater either at once inside setMatchTimeLeft (no update pending on the
\* component: the nested update is queued first and the returned 0 is applied
\* last) or during the next render (the nested update is a render-phase update
\* and is applied last).  Both happen; which one depends on what React had
\* pending.
CompletionTimeLeft == {0, MATCH_DURATION_SECONDS}

\* finishMatch without its clearInterval: the interval keeps firing.
finishMatch_KeepsInterval(s, r, timeLeft) ==
    [s EXCEPT !.matchInProgress = FALSE,
              !.matchTimeLeft = timeLeft,
              !.money = s.money + r.matchBonus]

\* finishMatch of closure c, from render state s, with result r.
finishMatch(s, r, timeLeft) ==
    [s EXCEPT !.matchInProgress = FALSE,
              !.matchTimeLeft = timeLeft,
              !.matchIntervalRef = NoTimer,
              !.money = s.money + r.matchBonus]

\* startMatch without its "if (matchInProgress) return": a click during a match
\* starts the match over.
startMatch_NoRunningGuard ==
    IF Len(players) = 0
    THEN /\ Spend(FALSE)
         /\ Handled("startMatch", "You need players in your squad to play a match!",
                    Current)
    ELSE /\ Spend(TRUE)
         /\ Handled("startMatch", "none",
                    [Current EXCEPT !.matchInProgress = TRUE,
                                    !.matchTimeLeft = MATCH_DURATION_SECONDS,
                                    !.matchProgress = 0,
                                    !.matchIntervalRef = <<Closure(Current)>>])

\* startMatch without its setMatchProgress(0): the bar of the match before
\* stays until the first tick.
startMatch_KeepsProgress ==
    IF Len(players) = 0
    THEN /\ Spend(FALSE)
         /\ Handled("startMatch", "You need players in your squad to play a match!",
                    Current)
    ELSE IF matchInProgress
    THEN /\ Spend(FALSE)
         /\ Handled("startMatch", "none", Current)
    ELSE /\ Spend(TRUE)
         /\ Handled("startMatch", "none",
                    [Current EXCEPT !.matchInProgress = TRUE,
                                    !.matchTimeLeft = MATCH_DURATION_SECONDS,
                                    !.matchIntervalRef = <<Closure(Current)>>])

\* startMatch without its test of players.length: an empty squad starts a match.
startMatch_NoRosterGuard ==
    IF matchInProgress
    THEN /\ Spend(FALSE)
         /\ Handled("startMatch", "none", Current)
    ELSE /\ Spend(TRUE)
         /\ Handled("startMatch", "none",
                    [Current EXCEPT !.matchInProgress = TRUE,
                                    !.matchTimeLeft = MATCH_DURATION_SECONDS,
                                    !.matchProgress = 0,
                                    !.matchIntervalRef = <<Closure(Current)>>])

\* startMatch
startMatch ==
    IF Len(players) = 0
    THEN /\ Spend(FALSE)
         /\ Handled("startMatch", "You need players in your squad to play a match!",
                    Current)
    ELSE IF matchInProgress
    THEN /\ Spend(FALSE)
         /\ Handled("startMatch", "none", Current)
    ELSE /\ Spend(TRUE)
         /\ Handled("startMatch", "none",
                    [Current EXCEPT !.matchInProgress = TRUE,
                                    !.matchTimeLeft = MATCH_DURATION_SECONDS,
                                    !.matchProgress = 0,
                                    !.matchIntervalRef = <<Closure(Current)>>])

\* The callback with setMatchProgress computed from prevTime, not newTime.
MatchTick_ProgressFromPrevTime ==
    /\ matchIntervalRef # NoTimer
    /\ UNCHANGED budget
    /\ LET newTime == matchTimeLeft - 1
           ticked == [Current EXCEPT
                        !.matchTimeLeft = newTime,
                        !.matchProgress =
                            (MATCH_DURATION_SECONDS - matchTimeLeft) * 100]
       IN IF newTime <= 0
          THEN \E r \in FinishResults(matchIntervalRef[1]), t \in CompletionTimeLeft :
                  Handled("matchTick", r.alert, finishMatch(ticked, r, t))
          ELSE Handled("matchTick", "none", ticked)

\* The callback of the match interval (the one startMatch creates and the one
\* the load effect creates are the same code).
MatchTick ==
    /\ matchIntervalRef # NoTimer
    /\ UNCHANGED budget
    /\ LET newTime == matchTimeLeft - 1
           ticked == [Current EXCEPT
                        !.matchTimeLeft = newTime,
                        !.matchProgress = (MATCH_DURATION_SECONDS - newTime) * 100]
       IN IF newTime <= 0
          THEN \E r \in FinishResults(matchIntervalRef[1]), t \in CompletionTimeLeft :
                  Handled("matchTick", r.alert, finishMatch(ticked, r, t))
          ELSE Handled("matchTick", "none", ticked)

\* The callback adding stadiumCapacity / 100 instead of passiveIncomePerSecond.
PassiveTick_AddsCapacityShare ==
    /\ Spend(stadiumCapacity # 0)
    /\ Handled("passiveTick", "none",
               [Current EXCEPT !.money = money + Cents(stadiumCapacity \div 100)])

\* The callback of the passive income interval (effect 1).
PassiveTick ==
    /\ Spend(passiveIncomePerSecond # 0)
    /\ Handled("passiveTick", "none",
               [Current EXCEPT !.money = money + Cents(passiveIncomePerSecond)])

----------------------------------------------------------------------------
(* Promotion *)

\* The onClick with its two tests swapped: the team's overall is tested first.
promoteLeague_OverallFirst ==
    LET found == FindTier(currentLeagueLevel + 1)
    IN IF found = {}
       THEN /\ Spend(FALSE)
            /\ Handled("promoteLeague", "none", Current)
       ELSE LET nextLeague == LEAGUE_TIERS[CHOOSE i \in found : TRUE]
                teamOverall == TeamOverall(players)
            IN IF teamOverall < nextLeague.promotionThresholdOverall
               THEN /\ Spend(FALSE)
                    /\ Handled("promoteLeague", "Your team is not strong enough",
                               Current)
               ELSE IF money < Cents(nextLeague.promotionCost)
               THEN /\ Spend(FALSE)
                    /\ Handled("promoteLeague", "Not enough money for promotion!",
                               Current)
               ELSE /\ Spend(TRUE)
                    /\ Handled("promoteLeague", "Congratulations!",
                               [Current EXCEPT
                                  !.money = money - Cents(nextLeague.promotionCost),
                                  !.currentLeagueLevel = currentLeagueLevel + 1])

\* The onClick taking the cost off money before it tests the team's overall.
promoteLeague_ChargesBeforeOverallTest ==
    LET found == FindTier(currentLeagueLevel + 1)
    IN IF found = {}
       THEN /\ Spend(FALSE)
            /\ Handled("promoteLeague", "none", Current)
       ELSE LET nextLeague == LEAGUE_TIERS[CHOOSE i \in found : TRUE]
                teamOverall == TeamOverall(players)
                charged == [Current EXCEPT
                              !.money = money - Cents(nextLeague.promotionCost)]
            IN IF money < Cents(nextLeague.promotionCost)
               THEN /\ Spend(FALSE)
                    /\ Handled("promoteLeague", "Not enough money for promotion!",
                               Current)
               ELSE IF teamOverall < nextLeague.promotionThresholdOverall
               THEN /\ Spend(TRUE)
                    /\ Handled("promoteLeague", "Your team is not strong enough",
                               charged)
               ELSE /\ Spend(TRUE)
                    /\ Handled("promoteLeague", "Congratulations!",
                               [charged EXCEPT
                                  !.currentLeagueLevel = currentLeagueLevel + 1])

\* The onClick adding 2 to currentLeagueLevel.
promoteLeague_SkipsATier ==
    LET found == FindTier(currentLeagueLevel + 1)
    IN IF found = {}
       THEN /\ Spend(FALSE)
            /\ Handled("promoteLeague", "none", Current)
       ELSE LET nextLeague == LEAGUE_TIERS[CHOOSE i \in found : TRUE]
                teamOverall == TeamOverall(players)
            IN IF money < Cents(nextLeague.promotionCost)
               THEN /\ Spend(FALSE)
                    /\ Handled("promoteLeague", "Not enough money for promotion!",
                               Current)
               ELSE IF teamOverall < nextLeague.promotionThresholdOverall
               THEN /\ Spend(FALSE)
                    /\ Handled("promoteLeague", "Your team is not strong enough",
                               Current)
               ELSE /\ Spend(TRUE)
                    /\ Handled("promoteLeague", "Congratulations!",
                               [Current EXCEPT
                                  !.money = money - Cents(nextLeague.promotionCost),
                                  !.currentLeagueLevel = currentLeagueLevel + 2])

\* onClick of the promote button
promoteLeague ==
    LET found == FindTier(currentLeagueLevel + 1)
    IN IF found = {}
       THEN /\ Spend(FALSE)
            /\ Handled("promoteLeague", "none", Current)
       ELSE LET nextLeague == LEAGUE_TIERS[CHOOSE i \in found : TRUE]
                teamOverall == TeamOverall(players)
            IN IF money < Cents(nextLeague.promotionCost)
               THEN /\ Spend(FALSE)
                    /\ Handled("promoteLeague", "Not enough money for promotion!",
                               Current)
               ELSE IF teamOverall < nextLeague.promotionThresholdOverall
               THEN /\ Spend(FALSE)
                    /\ Handled("promoteLeague", "Your team is not strong enough",
                               Current)
               ELSE /\ Spend(TRUE)
                    /\ Handled("promoteLeague", "Congratulations!",
                               [Current EXCEPT
                                  !.money = money - Cents(nextLeague.promotionCost),
                                  !.currentLeagueLevel = currentLeagueLevel + 1])

\* The callback of the passive income interval runs and the click on the
\* promote button is handled before React has rendered the callback's update
\* (React renders the update of a timer in a later task of the scheduler, and
\* a click that is already waiting is dispatched first).  The onClick is the
\* one of the render before the tick: it tests that render's money, and its
\* setMoney(money - promotionCost) sets a value, queued after the tick's
\* updater, that replaces what the updater returned.
PassiveTickThenPromote ==
    LET found == FindTier(currentLeagueLevel + 1)
        ticked == [Current EXCEPT !.money = money + Cents(passiveIncomePerSecond)]
        op == "passiveTick+promoteLeague"
    IN /\ passiveIncomePerSecond # 0
       /\ Spend(TRUE)
       /\ IF found = {}
          THEN Handled(op, "none", ticked)
          ELSE LET nextLeague == LEAGUE_TIERS[CHOOSE i \in found : TRUE]
                   teamOverall == TeamOverall(players)
               IN IF money < Cents(nextLeague.promotionCost)
                  THEN Handled(op, "Not enough money for promotion!", ticked)
                  ELSE IF teamOverall < nextLeague.promotionThresholdOverall
                  THEN Handled(op, "Your team is not strong enough", ticked)
                  ELSE Handled(op, "Congratulations!",
                               [Current EXCEPT
                                  !.money = money - Cents(nextLeague.promotionCost),
                                  !.currentLeagueLevel = currentLeagueLevel + 1])

----------------------------------------------------------------------------
(* Page loads *)

\* The lineups a page load may have to generate: none is generated when the
\* stored blob has players.
LineupsFor(stored) ==
    IF stored # NoSave /\ "players" \in DOMAIN stored[1]
    THEN {<<>>}
    ELSE InitialLineups

\* The page is loaded with localStorage holding stored: the component mounts,
\* and every timer of the page before is gone.
PageLoad(stored) ==
    /\ bootBlob' = stored
    /\ lastOp' = "load"
    /\ lastSlot' = NoSlot
    /\ alertMsg' = "none"
    /\ UNCHANGED resolved
    /\ IF RenderThrows(stored)
       THEN /\ Render(Unmounted)
            /\ saved' = stored
            /\ mounted' = FALSE
       ELSE \E lineup \in LineupsFor(stored) :
               LET s0 == InitialRender(stored, lineup)
                   s1 == MountEffects(s0)
               IN /\ Render(s1)
                  /\ saved' = IF Snapshot(s1) # Snapshot(s0)
                              THEN SaveEffect(s1) ELSE SaveEffect(s0)
                  /\ mounted' = TRUE

\* The user reloads the page, or closes it and opens it again.
Reload ==
    /\ Spend(TRUE)
    /\ PageLoad(saved)

\* What localStorage holds when the page is unloaded after
\* localStorage.clear(); window.location.reload().  reload() returns at once
\* and the page keeps running until the new document arrives: a timer that
\* fires in between and changes a persisted field re-renders, and the save
\* effect writes the blob again.
WrittenBeforeUnload ==
    {NoSave}
      \cup (IF passiveIncomePerSecond # 0
            THEN {SaveEffect([Current EXCEPT
                                !.money = money + Cents(passiveIncomePerSecond)])}
            ELSE {})
      \cup (IF matchIntervalRef # NoTimer /\ matchTimeLeft > 1
            THEN {SaveEffect([Current EXCEPT !.matchTimeLeft = matchTimeLeft - 1])}
            ELSE {})

\* onClick of "Clear Save & Restart Game": localStorage.clear() and reload.
resetGame ==
    /\ mounted
    /\ Spend(TRUE)
    /\ \E stored \in WrittenBeforeUnload : PageLoad(stored)

----------------------------------------------------------------------------
(* Initial states and the next-state relation *)

\* A roster of a later stage of the game: the seven players trained (and
\* recruited) up to overall o each.
DevelopedRoster(o) ==
    [i \in 1..7 |->
        [generateInitialLineup([j \in 1..7 |-> 0])[i]
            EXCEPT !.overall = o, !.value = o * 100]]

\* What an earlier session left behind after promotion to level 3.
LateGameSave ==
    [money |-> Cents(1250), clickPower |-> 4, stadiumCapacity |-> 300,
     passiveIncomePerSecond |-> 3, players |-> DevelopedRoster(360),
     matchInProgress |-> FALSE, matchTimeLeft |-> MATCH_DURATION_SECONDS,
     currentLeagueLevel |-> 3]

\* A blob not written by this version: a match in progress with no time left.
ExpiredMatchSave ==
    [money |-> Cents(700), clickPower |-> 2, stadiumCapacity |-> 100,
     passiveIncomePerSecond |-> 1,
     players |-> generateInitialLineup([j \in 1..7 |-> 0]),
     matchInProgress |-> TRUE, matchTimeLeft |-> 0,
     currentLeagueLevel |-> 1]

\* A blob not written by this version: a squad of two players, overall 100.
SmallSquadSave ==
    [money |-> 0, clickPower |-> 1, stadiumCapacity |-> 100,
     passiveIncomePerSecond |-> 0,
     players |-> << generateRandomPlayer(50, 50, "MID", 0, 1),
                    generateRandomPlayer(50, 50, "FWD", 0, 2) >>,
     matchInProgress |-> FALSE, matchTimeLeft |-> MATCH_DURATION_SECONDS,
     currentLeagueLevel |-> 1]

\* A blob not written by this version: an empty squad.
EmptySquadSave == [SmallSquadSave EXCEPT !.players = <<>>]

\* A blob not written by this version: two players of overall 0.
ZeroSquadSave ==
    [SmallSquadSave EXCEPT
        !.players = << generateRandomPlayer(0, 0, "MID", 0, 1),
                       generateRandomPlayer(0, 0, "FWD", 0, 2) >>]

\* A blob of an earlier version: it has three of the fields.
PartialSave == [clickPower |-> 3, stadiumCapacity |-> 200, currentLeagueLevel |-> 2]

\* What localStorage may hold when the page is first loaded (stored), and what
\* the session has reached since: the balance in currency units (0 is the one
\* the page load leaves, the others are reached by ticket sales) and the click
\* power (1 after the page load, more after that many purchases).
Session(stored, m, cp) ==
    [stored |-> stored, money |-> m, clickPower |-> cp, stadiumUpgrades |-> 0]

\* A session without a save in which the stadium was upgraded n times (each
\* buyStadiumUpgrade adds 100 seats and sets the passive income to a
\* hundredth of the capacity) and m is left in the till.
UpgradedSession(m, n) ==
    [stored |-> NoSave, money |-> m, clickPower |-> 1, stadiumUpgrades |-> n]

InitialSessions ==
    { Session(NoSave, 0, 1), Session(NoSave, 5000, 1), Session(NoSave, 500000, 1),
      Session(NoSave, 1000, 5), Session(NoSave, 100, 10),
      Session(<<LateGameSave>>, 0, 1), Session(<<LateGameSave>>, 500000, 1),
      Session(<<LateGameSave>>, 600000, 1),
      Session(<<ZeroSquadSave>>, 0, 1), Session(<<PartialSave>>, 0, 1),
      Session(<<ExpiredMatchSave>>, 0, 1),
      Session(<<SmallSquadSave>>, 0, 1), Session(<<EmptySquadSave>>, 0, 1),
      Session(<<CorruptSave>>, 0, 1), UpgradedSession(300, 1) }

\* The slot indices the user clicks: a defender's slot, and one past the roster.
SlotInputs == {1, 7}

Init ==
    \E session \in InitialSessions :
      \E lineup \in LineupsFor(session.stored) :
        LET stored == session.stored
            m == session.money
            loaded == Mount(stored, lineup)
            capacity == loaded.stadiumCapacity + 100 * session.stadiumUpgrades
            s == IF RenderThrows(stored)
                 THEN Unmounted
                 ELSE [loaded EXCEPT
                         !.money = Cents(m),
                         !.clickPower = session.clickPower,
                         !.stadiumCapacity = capacity,
                         !.passiveIncomePerSecond =
                             IF session.stadiumUpgrades = 0
                             THEN loaded.passiveIncomePerSecond
                             ELSE capacity \div 100]
        IN /\ money = s.money
           /\ clickPower = s.clickPower
           /\ stadiumCapacity = s.stadiumCapacity
           /\ passiveIncomePerSecond = s.passiveIncomePerSecond
           /\ currentLeagueLevel = s.currentLeagueLevel
           /\ players = s.players
           /\ matchInProgress = s.matchInProgress
           /\ matchTimeLeft = s.matchTimeLeft
           /\ matchProgress = s.matchProgress
           /\ matchIntervalRef = s.matchIntervalRef
           /\ saved = IF RenderThrows(stored) THEN stored ELSE SaveEffect(s)
           /\ bootBlob = stored
           /\ lastOp = IF m = 0 THEN "load" ELSE "sellTickets"
           /\ lastSlot = NoSlot
           /\ alertMsg = "none"
           /\ mounted = ~RenderThrows(stored)
           /\ resolved = <<>>
           /\ budget = MaxActions

Next ==
    \/ handleTicketSaleClick
    \/ buyClickPowerUpgrade
    \/ buyStadiumUpgrade
    \/ \E slotIndex \in SlotInputs, draw \in RandomBelow(11) :
          recruitNewPlayerInSlot(slotIndex, draw)
    \/ \E slotIndex \in SlotInputs : trainPlayerInSlot(slotIndex)
    \/ startMatch
    \/ MatchTick
    \/ PassiveTick
    \/ promoteLeague
    \/ PassiveTickThenPromote
    \/ Reload
    \/ resetGame

Spec == Init /\ [][Next]_vars

----------------------------------------------------------------------------
(* finishMatch on its own: the last tick of a match, the opponent forced *)

\* The squads and the opponents finishMatch is run on.
MaxTeamOverall == 130
MaxOpponentOverall == 180

\* A squad of one player, of team overall t.
Squad(t) == << generateRandomPlayer(t, t, "FWD", 0, 1) >>

\* The variables hold render state s.
Holds(s) ==
    /\ money = s.money
    /\ clickPower = s.clickPower
    /\ stadiumCapacity = s.stadiumCapacity
    /\ passiveIncomePerSecond = s.passiveIncomePerSecond
    /\ currentLeagueLevel = s.currentLeagueLevel
    /\ players = s.players
    /\ matchInProgress = s.matchInProgress
    /\ matchTimeLeft = s.matchTimeLeft
    /\ matchProgress = s.matchProgress
    /\ matchIntervalRef = s.matchIntervalRef

\* The page was loaded with a squad of team overall t in league lvl, a match
\* was started and has one second left.
ResolveInit ==
    \E t \in 1..MaxTeamOverall, lvl \in 1..Len(LEAGUE_TIERS) :
        LET blob == [SmallSquadSave EXCEPT !.players = Squad(t),
                                           !.currentLeagueLevel = lvl]
            s0 == Mount(<<blob>>, <<>>)
            s == [s0 EXCEPT !.matchInProgress = TRUE,
                            !.matchTimeLeft = 1,
                            !.matchProgress = (MATCH_DURATION_SECONDS - 1) * 100,
                            !.matchIntervalRef = <<Closure(s0)>>]
        IN /\ Holds(s)
           /\ saved = SaveEffect(s)
           /\ bootBlob = <<blob>>
           /\ lastOp = "matchTick"
           /\ lastSlot = NoSlot
           /\ alertMsg = "none"
           /\ mounted = TRUE
           /\ resolved = <<>>
           /\ budget = MaxActions

\* The completing tick of the match interval with Math.random() forced so that
\* finishMatch computes the given opponentOverall; resolved records the locals
\* of finishMatch, the money before it, and whether Math.random() can give
\* that opponent.
MatchTickAgainst(opponentOverall) ==
    /\ mounted
    /\ matchIntervalRef # NoTimer
    /\ matchTimeLeft = 1
    /\ LET c == matchIntervalRef[1]
           teamOverall == TeamOverall(c.players)
           currentTier == LEAGUE_TIERS[CHOOSE i \in FindTier(c.currentLeagueLevel) : TRUE]
           matchResult == Outcome(teamOverall, opponentOverall)
           matchBonus == MatchBonus(teamOverall, currentTier, matchResult)
           r == [alert |-> matchResult, matchBonus |-> matchBonus]
           ticked == [Current EXCEPT
                        !.matchTimeLeft = 0,
                        !.matchProgress = MATCH_DURATION_SECONDS * 100]
       IN /\ teamOverall > 0
          /\ \E t \in CompletionTimeLeft :
                /\ Render(finishMatch(ticked, r, t))
                /\ SaveAfter(finishMatch(ticked, r, t))
          /\ lastOp' = "matchTick"
          /\ lastSlot' = NoSlot
          /\ alertMsg' = matchResult
          /\ resolved' = << [teamOverall |-> teamOverall,
                             opponentOverall |-> opponentOverall,
                             currentTier |-> currentTier,
                             matchResult |-> matchResult,
                             matchBonus |-> matchBonus,
                             prevMoney |-> money,
                             sampled |-> opponentOverall
                                           \in OpponentRange(teamOverall, currentTier)] >>
          /\ UNCHANGED <<bootBlob, mounted, budget>>

ResolveNext == \E opponentOverall \in 0..MaxOpponentOverall : MatchTickAgainst(opponentOverall)

ResolveSpec == ResolveInit /\ [][ResolveNext]_vars

----------------------------------------------------------------------------
(* Page loads: resume and round trip *)

\* C1: a page load that finds matchInProgress = true and matchTimeLeft = t,
\* 0 < t < 300, settles with the match in progress, t seconds left and the
\* match timer running.
C1_ResumesMatch ==
    \A t \in 1..(MATCH_DURATION_SECONDS - 1) :
        (/\ lastOp = "load"
         /\ bootBlob # NoSave
         /\ Parses(bootBlob)
         /\ "matchInProgress" \in DOMAIN bootBlob[1]
         /\ bootBlob[1].matchInProgress
         /\ bootBlob[1].matchTimeLeft = t)
        => (/\ matchInProgress
            /\ matchTimeLeft = t
            /\ matchIntervalRef # NoTimer)

\* C2: a reload settles in the state whose snapshot localStorage held: every
\* persisted field is the one that was saved.
C2_RoundTrip ==
    [][(lastOp' = "load" /\ saved # NoSave /\ Parses(saved) /\ bootBlob' = saved)
         => Snapshot([money |-> money', clickPower |-> clickPower',
                      stadiumCapacity |-> stadiumCapacity',
                      passiveIncomePerSecond |-> passiveIncomePerSecond',
                      players |-> players',
                      matchInProgress |-> matchInProgress',
                      matchTimeLeft |-> matchTimeLeft',
                      currentLeagueLevel |-> currentLeagueLevel'])
            = saved[1]]_vars

\* C7: a page load that finds matchInProgress = true and matchTimeLeft <= 0
\* settles with the match resolved: not in progress, no timer, and the reward
\* of the stored roster and league added to the stored money.
C7_ExpiredMatchResolved ==
    (/\ lastOp = "load"
     /\ bootBlob # NoSave
     /\ Parses(bootBlob)
     /\ "matchInProgress" \in DOMAIN bootBlob[1]
     /\ bootBlob[1].matchInProgress
     /\ bootBlob[1].matchTimeLeft <= 0)
    => (/\ ~matchInProgress
        /\ matchIntervalRef = NoTimer
        /\ \E r \in FinishResults(Closure(bootBlob[1])) :
              money = bootBlob[1].money + r.matchBonus)

----------------------------------------------------------------------------
(* The match timer *)

\* Fair ticking: the browser keeps firing the match interval while it exists.
\* Checked from the sessions that start a new game with 5000 in hand, where
\* every purchase is affordable while the match runs.
FairInit == Init /\ bootBlob = NoSave /\ money = Cents(5000)

FairSpec == FairInit /\ [][Next]_vars /\ WF_vars(MatchTick)

\* A step of the match interval's callback, and the one that completes the match.
TickStep == matchInProgress /\ lastOp' = "matchTick"
CompletingTick == TickStep /\ ~matchInProgress'

\* C3: the reward of the completing tick is one that finishMatch computes from
\* the players and the league level of the state the tick is taken in.
C3_RewardFromCurrentRoster ==
    [][CompletingTick
         => \E r \in FinishResults(Closure(Current)) :
               money' = money + r.matchBonus]_vars

\* C4: after the completing tick the match is not in progress, matchTimeLeft is
\* MATCH_DURATION_SECONDS and no match timer is left.
C4_CompletionResetsTimer ==
    [][CompletingTick
         => (/\ ~matchInProgress'
             /\ matchTimeLeft' = MATCH_DURATION_SECONDS
             /\ matchIntervalRef' = NoTimer)]_vars

\* C5 as claimed: every tick of a running match takes 1 off matchTimeLeft and
\* leaves matchProgress = (300 - matchTimeLeft) / 300 * 100; matchTimeLeft is
\* never negative; matchProgress is 0 right after startMatch and 100 after the
\* tick taken with one second left.
C5_EveryTickDecrements ==
    /\ [](matchTimeLeft >= 0)
    /\ [][(~matchInProgress /\ matchInProgress') => matchProgress' = 0]_vars
    /\ [][TickStep
            => (/\ matchTimeLeft' = matchTimeLeft - 1
                /\ matchProgress' = (MATCH_DURATION_SECONDS - matchTimeLeft') * 100
                /\ (matchTimeLeft = 1
                      => matchProgress' = 100 * MATCH_DURATION_SECONDS))]_vars

\* C5 as amended: the same of every tick but the completing one; the
\* completing tick, taken with one second left, leaves matchProgress at 100 and
\* matchTimeLeft at 0 or at MATCH_DURATION_SECONDS.
C5_TickDecrementsUntilCompletion ==
    /\ [](matchTimeLeft >= 0)
    /\ [][(~matchInProgress /\ matchInProgress') => matchProgress' = 0]_vars
    /\ [][TickStep
            => IF matchTimeLeft > 1
               THEN /\ matchInProgress'
                    /\ matchTimeLeft' = matchTimeLeft - 1
                    /\ matchProgress' = (MATCH_DURATION_SECONDS - matchTimeLeft') * 100
               ELSE /\ ~matchInProgress'
                    /\ matchProgress' = 100 * MATCH_DURATION_SECONDS
                    /\ matchTimeLeft' \in {0, MATCH_DURATION_SECONDS}]_vars

\* A match has just completed with its progress at 100%.
C5_Witness ==
    /\ lastOp = "matchTick"
    /\ ~matchInProgress
    /\ matchProgress = 100 * MATCH_DURATION_SECONDS

----------------------------------------------------------------------------
(* Promotion *)

\* The tier promoteLeague looks at: the one of level currentLeagueLevel + 1.
NextLeague == LEAGUE_TIERS[CHOOSE i \in FindTier(currentLeagueLevel + 1) : TRUE]

C9_ScenarioC ==
    [][(/\ lastOp' = "promoteLeague"
        /\ currentLeagueLevel = 1
        /\ TeamOverall(players) = 420
        /\ money = Cents(5000))
         => (currentLeagueLevel' = 2 /\ money' = 0)]_vars

\* promoteLeague rejects in the state it is called in.
PromotionBlocked ==
    \/ FindTier(currentLeagueLevel + 1) = {}
    \/ money < Cents(NextLeague.promotionCost)
    \/ TeamOverall(players) < NextLeague.promotionThresholdOverall

\* C10: a rejected promoteLeague changes no field of the game state, no timer
\* and nothing in localStorage.
C10_RejectedPromotionChangesNothing ==
    [][(lastOp' = "promoteLeague" /\ PromotionBlocked)
         => UNCHANGED <<gameState, matchProgress, matchIntervalRef, saved>>]_vars

\* A promotion was rejected for the team's overall, the money being there.
C10_Witness ==
    /\ lastOp = "promoteLeague"
    /\ alertMsg = "Your team is not strong enough"
    /\ money >= Cents(NextLeague.promotionCost)

----------------------------------------------------------------------------
(* Match resolution *)

\* The finishMatch call recorded in resolved drew an opponent Math.random()
\* can give.
ResolvedSampled == resolved # <<>> /\ resolved[1].sampled

\* C11: for every team overall > 0, every tier of the catalog and every
\* opponent finishMatch can sample, the outcome is the one of the first test
\* that holds among team > opp * 1.1 (DOMINANT_WIN, factor 1.5),
\* team > opp * 0.9 (WIN, 1), team > opp * 0.7 (DRAW, 0.5), else LOSS (0.1);
\* the reward is factor * (baseWinReward + team * overallMultiplier), is not
\* negative and is added to money; 100 against 50 is a DOMINANT_WIN.
C11_MatchResolution ==
    ResolvedSampled =>
        LET r == resolved[1]
            t == r.teamOverall
            o == r.opponentOverall
            category ==
                IF 10 * t > 11 * o THEN <<"DOMINANT_WIN", 15>>
                ELSE IF 10 * t > 9 * o THEN <<"WIN", 10>>
                ELSE IF 10 * t > 7 * o THEN <<"DRAW", 5>>
                ELSE <<"LOSS", 1>>
        IN /\ r.matchResult = category[1]
           /\ alertMsg = category[1]
           /\ r.matchBonus
                = category[2] * (10 * r.currentTier.baseWinReward
                                 + t * r.currentTier.overallMultiplier)
           /\ r.matchBonus >= 0
           /\ money = r.prevMoney + r.matchBonus
           /\ ((t = 100 /\ o = 50) => r.matchResult = "DOMINANT_WIN")

\* Scenario D: 100 against 50 in the Amateur League was a dominant win, worth
\* 100 * 1.5 + 100 * 0.5 * 1.5 = 225.
C11_Witness ==
    /\ ResolvedSampled
    /\ resolved[1].teamOverall = 100
    /\ resolved[1].opponentOverall = 50
    /\ resolved[1].currentTier.level = 1
    /\ resolved[1].matchResult = "DOMINANT_WIN"
    /\ money = Cents(225)

\* LOSS < DRAW < WIN < DOMINANT_WIN
OutcomeRank(matchResult) ==
    CASE matchResult = "LOSS" -> 0
      [] matchResult = "DRAW" -> 1
      [] matchResult = "WIN" -> 2
      [] matchResult = "DOMINANT_WIN" -> 3

\* C12: with the opponent fixed, a team of a greater overall never gets an
\* outcome of a lower rank: the outcome finishMatch gave a team of overall a
\* against opp is not above the outcome of any b > a against the same opp.
C12_OutcomeMonotone ==
    resolved # <<>> =>
        \A b \in (resolved[1].teamOverall + 1)..(MaxTeamOverall + 1) :
            OutcomeRank(Outcome(b, resolved[1].opponentOverall))
                >= OutcomeRank(resolved[1].matchResult)

\* 62 lost against 90, and 63 draws against 90 (63 > 90 * 0.7 in doubles).
C12_Witness ==
    /\ resolved # <<>>
    /\ resolved[1].teamOverall = 62
    /\ resolved[1].opponentOverall = 90
    /\ resolved[1].matchResult = "LOSS"
    /\ Outcome(63, 90) = "DRAW"

----------------------------------------------------------------------------
(* Starting a match *)

\* C13: startMatch with no match in progress and a squad that is not empty
\* leaves matchInProgress = true, matchTimeLeft = 300, matchProgress = 0 and
\* the match timer running, and changes none of money, clickPower,
\* stadiumCapacity, passiveIncomePerSecond, players, currentLeagueLevel.
C13_StartMatchFrame ==
    [][(lastOp' = "startMatch" /\ ~matchInProgress /\ Len(players) > 0)
         => (/\ matchInProgress'
             /\ matchTimeLeft' = MATCH_DURATION_SECONDS
             /\ matchProgress' = 0
             /\ matchIntervalRef' # NoTimer
             /\ UNCHANGED <<money, clickPower, stadiumCapacity,
                            passiveIncomePerSecond, players,
                            currentLeagueLevel>>)]_vars

\* A second match was started after the first one of a new game was played to
\* its end (465 is the reward of a squad of overall 420 in the Amateur League).
C13_Witness ==
    /\ lastOp = "startMatch"
    /\ matchInProgress
    /\ matchTimeLeft = MATCH_DURATION_SECONDS
    /\ matchProgress = 0
    /\ matchIntervalRef # NoTimer
    /\ budget = 0
    /\ money = Cents(465)

\* C14: startMatch with an empty squad alerts that players are needed, starts
\* no timer, leaves matchInProgress false and changes no field of the game
\* state.
C14_EmptyRosterRejected ==
    [][(lastOp' = "startMatch" /\ Len(players) = 0)
         => (/\ alertMsg' = "You need players in your squad to play a match!"
             /\ matchIntervalRef' = NoTimer
             /\ ~matchInProgress'
             /\ UNCHANGED <<gameState, matchProgress, matchIntervalRef, saved>>)]_vars

\* "Start match" was clicked with an empty squad and was refused.
C14_Witness ==
    /\ lastOp = "startMatch"
    /\ alertMsg = "You need players in your squad to play a match!"
    /\ players = <<>>
    /\ mounted
    /\ ~matchInProgress
    /\ matchIntervalRef = NoTimer

----------------------------------------------------------------------------
(* The roster *)

\* The handler that ran in this step was called with a slot of the roster.
SlotStep(op) == lastOp' = op /\ lastSlot' + 1 \in DOMAIN players

\* The player in the slot the handler was called with, before the step.
SlotPlayer == players[lastSlot' + 1]

\* Every slot but the one the handler was called with holds the same player.
OtherSlotsKept ==
    /\ Len(players') = Len(players)
    /\ \A i \in DOMAIN players : i # lastSlot' + 1 => players'[i] = players[i]

\* C15: trainPlayerInSlot(slot) with money >= players[slot].overall * 5 takes
\* exactly that amount (five times the overall before the training) off money
\* and adds 1 to that player's overall and 100 to its value.
C15_TrainCharges ==
    [][(SlotStep("trainPlayer") /\ money >= Cents(SlotPlayer.overall * 5))
         => (/\ money' = money - Cents(SlotPlayer.overall * 5)
             /\ players'[lastSlot' + 1].overall = SlotPlayer.overall + 1
             /\ players'[lastSlot' + 1].value = SlotPlayer.value + 100
             /\ OtherSlotsKept)]_vars

\* A defender of overall 45 was trained to 46 for 225 out of 5000.
C15_Witness ==
    /\ lastOp = "trainPlayer"
    /\ alertMsg = "Trained"
    /\ lastSlot = 1
    /\ players[2].overall = 46
    /\ players[2].value = 4600
    /\ money = Cents(5000 - 225)

\* C16: recruitNewPlayerInSlot(slot) generates a candidate of an overall in
\* [old overall + 5, old overall + 15] and of value overall * 100; with
\* money >= that value the candidate takes the slot and exactly its value is
\* taken off money (otherwise money and the roster stay).
C16_RecruitReplaces ==
    [][SlotStep("recruitPlayer")
         => \E overall \in (SlotPlayer.overall + 5)..(SlotPlayer.overall + 15) :
               IF money >= Cents(overall * 100)
               THEN /\ players'[lastSlot' + 1].overall = overall
                    /\ players'[lastSlot' + 1].value = overall * 100
                    /\ players'[lastSlot' + 1].position = SlotPlayer.position
                    /\ players'[lastSlot' + 1].id # SlotPlayer.id
                    /\ money' = money - Cents(overall * 100)
                    /\ OtherSlotsKept
               ELSE UNCHANGED <<money, players>>]_vars

\* A defender was replaced by a recruit of a higher overall than the lowest
\* candidate's, a player no lineup generated.
C16_Witness ==
    /\ lastOp = "recruitPlayer"
    /\ alertMsg = "Recruited"
    /\ lastSlot = 1
    /\ Len(players) = 7
    /\ players[2].position = "DEF"
    /\ players[2].overall > 50
    /\ players[2].value = players[2].overall * 100
    /\ players[2].id > 7
    /\ money = Cents(500000 - players[2].value)

\* C17: buyClickPowerUpgrade, buyStadiumUpgrade, trainPlayerInSlot,
\* recruitNewPlayerInSlot and promoteLeague called with money below their cost
\* change no field of the game state; a recruit that is refused leaves the
\* roster as it was.  (The cost of a recruit is the candidate's value: money
\* is below it for certain when it is below the lowest candidate's value, and
\* it was below it when the handler alerted so.)
C17_InsufficientFunds ==
    [][(\/ (lastOp' = "buyClickPowerUpgrade" /\ money < Cents(10 * clickPower))
        \/ (lastOp' = "buyStadiumUpgrade" /\ money < Cents(50) * (stadiumCapacity \div 100))
        \/ (SlotStep("trainPlayer") /\ money < Cents(SlotPlayer.overall * 5))
        \/ (SlotStep("recruitPlayer")
              /\ money < Cents((SlotPlayer.overall + 5) * 100))
        \/ (lastOp' = "recruitPlayer" /\ alertMsg' = "Not enough money to recruit")
        \/ (lastOp' = "promoteLeague"
              /\ FindTier(currentLeagueLevel + 1) # {}
              /\ money < Cents(NextLeague.promotionCost)))
         => UNCHANGED <<gameState, matchProgress, matchIntervalRef, saved>>]_vars

\* A recruit was refused with 5000 in hand: the candidate was worth more.
C17_Witness ==
    /\ lastOp = "recruitPlayer"
    /\ alertMsg = "Not enough money to recruit"
    /\ lastSlot = 1
    /\ money = Cents(5000)
    /\ players[2].id <= 7

\* C18: no step but the reload after "Clear Save" (a new initialization)
\* changes the length of the roster; a new game has the seven players of the
\* generated lineup; trainPlayerInSlot lowers no player's overall or value.
C18_RosterLength ==
    /\ [][~(lastOp' = "load" /\ bootBlob' = NoSave)
            => Len(players') = Len(players)]_vars
    /\ [](bootBlob = NoSave => Len(players) = Len(generateInitialLineup([j \in 1..7 |-> 0])))
    /\ [][lastOp' = "trainPlayer"
            => /\ Len(players') = Len(players)
               /\ \A i \in DOMAIN players :
                     /\ players'[i].overall >= players[i].overall
                     /\ players'[i].value >= players[i].value]_vars

\* Two roster operations were made, the last one a recruit, and the roster
\* of the new game still has seven players.
C18_Witness ==
    /\ lastOp = "recruitPlayer"
    /\ alertMsg = "Recruited"
    /\ budget = 0
    /\ bootBlob = NoSave
    /\ Len(players) = 7
    /\ money < Cents(500000 - 7000)

----------------------------------------------------------------------------
(* Ticket sales *)

\* C19: handleTicketSaleClick adds exactly clickPower to money (1000 with
\* click power 5 gives 1005); buyClickPowerUpgrade with money >= 10 * clickPower
\* takes that cost off money and adds 1 to clickPower (100 with click power 10
\* gives 0 and 11).
C19_SellAndBoost ==
    /\ [][lastOp' = "sellTickets"
            => (money' = money + Cents(clickPower) /\ clickPower' = clickPower)]_vars
    /\ [][(lastOp' = "sellTickets" /\ money = Cents(1000) /\ clickPower = 5)
            => money' = Cents(1005)]_vars
    /\ [][(lastOp' = "buyClickPowerUpgrade" /\ money >= Cents(10 * clickPower))
            => (/\ money' = money - Cents(10 * clickPower)
                /\ clickPower' = clickPower + 1)]_vars
    /\ [][(lastOp' = "buyClickPowerUpgrade" /\ money = Cents(100) /\ clickPower = 10)
            => (money' = 0 /\ clickPower' = 11)]_vars

\* Scenario B was played: the upgrade from click power 10 took the last 100.
C19_Witness ==
    /\ lastOp = "buyClickPowerUpgrade"
    /\ alertMsg = "none"
    /\ money = 0
    /\ clickPower = 11

----------------------------------------------------------------------------
(* A stored blob that does not parse *)

\* C20: a page load that finds a stored blob that does not parse settles as
\* a new game: the component is mounted, money 0, clickPower 1,
\* stadiumCapacity 100, currentLeagueLevel 1, no match in progress, and a
\* freshly generated lineup.
C20_CorruptBlobIsNoSave ==
    (lastOp = "load" /\ bootBlob # NoSave /\ ~Parses(bootBlob))
        => (/\ mounted
            /\ money = 0
            /\ clickPower = 1
            /\ stadiumCapacity = 100
            /\ currentLeagueLevel = 1
            /\ ~matchInProgress
            /\ players \in InitialLineups)

----------------------------------------------------------------------------
(* Persistence *)

\* The fields of the blob the save effect writes.
BlobFields == DOMAIN Snapshot(Current)

\* Field f of the blob the page load found, d if the blob has no such field.
BootOr(f, d) == IF f \in DOMAIN bootBlob[1] THEN bootBlob[1][f] ELSE d

\* C21: a page load that finds a blob with fields missing settles with every
\* missing field at its default (money 0, clickPower 1, stadiumCapacity 100,
\* passiveIncomePerSecond 0, currentLeagueLevel 1, matchInProgress false,
\* matchTimeLeft 300, players a generated lineup) and every field of the blob
\* at the value the blob has.
C21_MissingFieldDefaults ==
    (/\ lastOp = "load"
     /\ bootBlob # NoSave
     /\ Parses(bootBlob)
     /\ DOMAIN bootBlob[1] # BlobFields)
    => (/\ mounted
        /\ money = BootOr("money", 0)
        /\ clickPower = BootOr("clickPower", 1)
        /\ stadiumCapacity = BootOr("stadiumCapacity", 100)
        /\ passiveIncomePerSecond = BootOr("passiveIncomePerSecond", 0)
        /\ currentLeagueLevel = BootOr("currentLeagueLevel", 1)
        /\ matchInProgress = BootOr("matchInProgress", FALSE)
        /\ matchTimeLeft = BootOr("matchTimeLeft", MATCH_DURATION_SECONDS)
        /\ IF "players" \in DOMAIN bootBlob[1]
           THEN players = bootBlob[1].players
           ELSE players \in InitialLineups)

\* C22: in every settled state of the mounted component localStorage holds
\* the snapshot of the current money, clickPower, stadiumCapacity,
\* passiveIncomePerSecond, players, matchInProgress, matchTimeLeft and
\* currentLeagueLevel.
C22_BlobIsSettledState == mounted => saved = <<Snapshot(Current)>>

\* A match has been played to its end and its reward is in the blob.
C22_Witness ==
    /\ lastOp = "matchTick"
    /\ ~matchInProgress
    /\ money > 0
    /\ saved # NoSave
    /\ saved[1].money = money
    /\ saved[1].matchTimeLeft = matchTimeLeft
    /\ ~saved[1].matchInProgress

\* The first snapshot a page load writes, for the blob it found.
FirstSnapshot(stored, lineup) == SaveEffect(InitialRender(stored, lineup))

\* C29: the first snapshot written by a page load that found a blob holds
\* the money, clickPower, stadiumCapacity, passiveIncomePerSecond,
\* matchInProgress and matchTimeLeft loaded from that blob, and so does the
\* blob once the load has settled.
C29_LoadBeforeFirstSave ==
    (/\ lastOp = "load"
     /\ bootBlob # NoSave
     /\ Parses(bootBlob)
     /\ DOMAIN bootBlob[1] = BlobFields)
    => LET p == bootBlob[1]
           Loaded(w) ==
               /\ w.money = NumOr(p, "money", 0)
               /\ w.clickPower = NumOr(p, "clickPower", 1)
               /\ w.stadiumCapacity = NumOr(p, "stadiumCapacity", 100)
               /\ w.passiveIncomePerSecond = NumOr(p, "passiveIncomePerSecond", 0)
               /\ w.matchInProgress = BoolOr(p, "matchInProgress", FALSE)
               /\ w.matchTimeLeft = NumOr(p, "matchTimeLeft", MATCH_DURATION_SECONDS)
       IN /\ \A lineup \in LineupsFor(bootBlob) :
                Loaded(FirstSnapshot(bootBlob, lineup)[1])
          /\ Loaded(saved[1])

\* C30: in a game started without a save passiveIncomePerSecond is
\* stadiumCapacity / 100 in every settled state (1 on a fresh game).
C30_PassiveProportional ==
    (mounted /\ bootBlob = NoSave)
        => passiveIncomePerSecond = stadiumCapacity \div 100

----------------------------------------------------------------------------
(* Timers and clicks *)

\* C23: the promotion paid in a step in which the tick of the passive income
\* also ran leaves money at what it was, plus the tick's increment, minus the
\* promotion cost.
C23_NoLostUpdate ==
    [][(lastOp' = "passiveTick+promoteLeague" /\ alertMsg' = "Congratulations!")
         => money' = money + Cents(passiveIncomePerSecond)
                       - Cents(NextLeague.promotionCost)]_vars

\* C24: the completing tick of a match of a squad of total overall 0 leaves
\* no match in progress, matchTimeLeft at 300, no timer, and money as it was.
C24_ZeroOverallResets ==
    [][(/\ CompletingTick
        /\ TeamOverall(players) = 0
        /\ TeamOverall(matchIntervalRef[1].players) = 0)
         => (/\ ~matchInProgress'
             /\ matchTimeLeft' = MATCH_DURATION_SECONDS
             /\ matchIntervalRef' = NoTimer
             /\ money' = money)]_vars

\* The page load of this step is the one "Clear Save & Restart Game" causes:
\* the blob it found is not the one the page before had saved.
ResetStep == lastOp' = "load" /\ bootBlob' # saved

\* C25: the page load after "Clear Save & Restart Game" settles with money 0,
\* clickPower 1, stadiumCapacity 100, currentLeagueLevel 1, no match in
\* progress, matchTimeLeft 300, no timer and a generated lineup.
C25_ResetRestartsFromDefaults ==
    [][ResetStep
         => (/\ money' = 0
             /\ clickPower' = 1
             /\ stadiumCapacity' = 100
             /\ currentLeagueLevel' = 1
             /\ ~matchInProgress'
             /\ matchTimeLeft' = MATCH_DURATION_SECONDS
             /\ matchIntervalRef' = NoTimer
             /\ players' \in InitialLineups)]_vars

\* C26: every tick of the passive income adds exactly passiveIncomePerSecond
\* to money and changes nothing else, and the tick can be taken whether a
\* match is in progress or not (at the moments of a match the ticks of the
\* two timers are interleaved at, and while the budget lasts).
C26_PassiveTick ==
    /\ [][lastOp' = "passiveTick"
            => (/\ money' = money + Cents(passiveIncomePerSecond)
                /\ UNCHANGED <<clickPower, stadiumCapacity, passiveIncomePerSecond,
                               currentLeagueLevel, players, matchInProgress,
                               matchTimeLeft, matchProgress, matchIntervalRef>>)]_vars
    /\ []((/\ mounted
           /\ budget > 0
           /\ matchInProgress => matchTimeLeft \in InterleavedAt)
            => ENABLED PassiveTick)

\* The passive income ticked during a match, with an income to add.
C26_Witness ==
    /\ lastOp = "passiveTick"
    /\ matchInProgress
    /\ matchIntervalRef # NoTimer
    /\ passiveIncomePerSecond > 0
    /\ money >= Cents(passiveIncomePerSecond)

----------------------------------------------------------------------------
(* The opponent and the catalog *)

\* C27: the opponent finishMatch resolves a match against is an integer opp
\* with floor(teamOverall * minFactor) <= opp < teamOverall * maxFactor.
C27_OpponentInRange ==
    ResolvedSampled =>
        LET r == resolved[1]
        IN /\ (r.teamOverall * r.currentTier.minFactor) \div 10 <= r.opponentOverall
           /\ 10 * r.opponentOverall < r.teamOverall * r.currentTier.maxFactor

\* Tier b has no reward, multiplier, factor, threshold or cost below tier a's.
NotBelow(a, b) ==
    /\ a.baseWinReward <= b.baseWinReward
    /\ a.overallMultiplier <= b.overallMultiplier
    /\ a.minFactor <= b.minFactor
    /\ a.maxFactor <= b.maxFactor
    /\ a.promotionThresholdOverall <= b.promotionThresholdOverall
    /\ a.promotionCost <= b.promotionCost

\* C28: the catalog has the levels 1..4 in order, every tier has
\* 0 < minFactor <= maxFactor, and baseWinReward, overallMultiplier,
\* minFactor, maxFactor, promotionThresholdOverall and promotionCost do not
\* decrease with the level; in particular, in every state, the tier the club
\* can be promoted into is not below the tier it plays in.
C28_CatalogOrdered ==
    /\ Len(LEAGUE_TIERS) = 4
    /\ \A i \in 1..Len(LEAGUE_TIERS) :
          /\ LEAGUE_TIERS[i].level = i
          /\ 0 < LEAGUE_TIERS[i].minFactor
          /\ LEAGUE_TIERS[i].minFactor <= LEAGUE_TIERS[i].maxFactor
    /\ \A i \in 1..(Len(LEAGUE_TIERS) - 1) :
          NotBelow(LEAGUE_TIERS[i], LEAGUE_TIERS[i + 1])
    /\ \A a \in FindTier(currentLeagueLevel), b \in FindTier(currentLeagueLevel + 1) :
          NotBelow(LEAGUE_TIERS[a], LEAGUE_TIERS[b])

\* The club was promoted into the last tier of the catalog.
C28_Witness ==
    /\ lastOp = "promoteLeague"
    /\ alertMsg = "Congratulations!"
    /\ currentLeagueLevel = Len(LEAGUE_TIERS)
    /\ FindTier(currentLeagueLevel) # {}
    /\ FindTier(currentLeagueLevel + 1) = {}

----------------------------------------------------------------------------
(* One match, one timer, one reward *)

\* C31: a match in progress ends only by the completing tick of its interval
\* (a page load resumes it; only "Clear Save & Restart Game" drops it), the
\* completing tick adds one reward of finishMatch to money and leaves no
\* interval to complete the match again, and no other tick adds to money.
C31_RewardOncePerMatch ==
    [][/\ (matchInProgress /\ ~matchInProgress' /\ ~ResetStep) => CompletingTick
       /\ CompletingTick
            => (/\ matchIntervalRef' = NoTimer
                /\ \E r \in FinishResults(matchIntervalRef[1]) :
                      money' = money + r.matchBonus)
       /\ (TickStep /\ matchInProgress') => money' = money]_vars

\* C32: an interval of a match exists exactly when matchInProgress is true,
\* and startMatch called during a match changes nothing: the interval stays
\* the one of the match in progress.
C32_OneTimer ==
    /\ [](matchIntervalRef # NoTimer <=> matchInProgress)
    /\ [][(lastOp' = "startMatch" /\ matchInProgress)
            => UNCHANGED <<gameState, matchIntervalRef, saved>>]_vars

\* startMatch was clicked in the middle of a match, which goes on.
C32_Witness ==
    /\ lastOp = "startMatch"
    /\ matchInProgress
    /\ matchIntervalRef # NoTimer
    /\ matchTimeLeft < MATCH_DURATION_SECONDS
    /\ matchProgress > 0

----------------------------------------------------------------------------
(* Invariants of the game state *)

\* C33: money is never negative.
C33_MoneyNeverNegative == money >= 0

\* A promotion that cost all the money there was.
C33_Witness ==
    /\ lastOp = "promoteLeague"
    /\ alertMsg = "Congratulations!"
    /\ money = 0
    /\ budget < MaxActions

\* A step of the promote button's onClick, alone or with the tick before it.
PromoteStep == lastOp' \in {"promoteLeague", "passiveTick+promoteLeague"}

RosterPriced == \A i \in DOMAIN players : players[i].value = players[i].overall * 100

\* C35: in a game started without a save every player has
\* value = overall * 100, and no step of any game breaks this for a roster
\* that has it.
C35_ValueFollowsOverall ==
    /\ bootBlob = NoSave => RosterPriced
    /\ [][RosterPriced => RosterPriced']_vars

\* A player of the default roster was trained and is priced by its overall.
C35_Witness ==
    /\ lastOp = "trainPlayer"
    /\ alertMsg = "Trained"
    /\ bootBlob = NoSave
    /\ lastSlot + 1 \in DOMAIN players
    /\ players[lastSlot + 1].value = players[lastSlot + 1].overall * 100
    /\ RosterPriced

----------------------------------------------------------------------------
(* The outcomes the catalog allows *)

\* C36: for every team overall > 0 and every opponent finishMatch can sample,
\* the outcome is a DOMINANT_WIN in tiers 1 and 2, a DOMINANT_WIN or a WIN in
\* tier 3, and never a LOSS (tier 4: DOMINANT_WIN, WIN or DRAW).
C36_NeverLoss ==
    (ResolvedSampled /\ resolved[1].teamOverall > 0) =>
        LET r == resolved[1]
            level == r.currentTier.level
        IN /\ r.matchResult # "LOSS"
           /\ level \in {1, 2} => r.matchResult = "DOMINANT_WIN"
           /\ level = 3 => r.matchResult \in {"DOMINANT_WIN", "WIN"}
           /\ level = 4 => r.matchResult \in {"DOMINANT_WIN", "WIN", "DRAW"}

\* A match of the last tier against an opponent of 1.25 times the team ended
\* in a draw.
C36_Witness ==
    /\ ResolvedSampled
    /\ resolved[1].currentTier.level = 4
    /\ resolved[1].teamOverall = 100
    /\ resolved[1].opponentOverall = 125
    /\ resolved[1].matchResult = "DRAW"

----------------------------------------------------------------------------
(* The roster under training and recruitment *)

\* A call of trainPlayerInSlot or recruitNewPlayerInSlot.
RosterStep == lastOp' \in {"trainPlayer", "recruitPlayer"}

\* C37: trainPlayerInSlot(slot) and recruitNewPlayerInSlot(slot) leave
\* clickPower, stadiumCapacity, passiveIncomePerSecond, currentLeagueLevel,
\* matchInProgress, matchTimeLeft and the player of every other slot as they
\* were; the trained player keeps id, name and position, and the recruit has
\* the position of the player it replaces.
C37_SlotFrame ==
    [][RosterStep
         => (/\ UNCHANGED <<clickPower, stadiumCapacity, passiveIncomePerSecond,
                            currentLeagueLevel, matchInProgress, matchTimeLeft,
                            matchIntervalRef>>
             /\ OtherSlotsKept
             /\ SlotStep("trainPlayer")
                  => (/\ players'[lastSlot' + 1].id = SlotPlayer.id
                      /\ players'[lastSlot' + 1].name = SlotPlayer.name
                      /\ players'[lastSlot' + 1].position = SlotPlayer.position)
             /\ SlotStep("recruitPlayer")
                  => players'[lastSlot' + 1].position = SlotPlayer.position)]_vars

\* A defender was recruited into the defender's slot during a match.
C37_Witness ==
    /\ lastOp = "recruitPlayer"
    /\ alertMsg = "Recruited"
    /\ lastSlot = 1
    /\ players[2].position = "DEF"
    /\ matchInProgress
    /\ matchTimeLeft = MATCH_DURATION_SECONDS

\* C38: trainPlayerInSlot and recruitNewPlayerInSlot called with a slotIndex
\* that is not a slot of the roster change nothing: money and roster stay, and
\* nothing is alerted.
C38_OutOfBoundsSlot ==
    [][(RosterStep /\ lastSlot' + 1 \notin DOMAIN players)
         => (/\ UNCHANGED <<gameState, matchProgress, matchIntervalRef, saved>>
             /\ alertMsg' = "none")]_vars

\* A recruit was asked for a slot past the roster, with money for any recruit.
C38_Witness ==
    /\ lastOp = "recruitPlayer"
    /\ lastSlot + 1 \notin DOMAIN players
    /\ lastSlot >= Len(players)
    /\ players # <<>>
    /\ alertMsg = "none"
    /\ money >= Cents(100000)

\* C39: the sum of the roster's overalls decreases in no step; an accepted
\* training adds 1 to it and an accepted recruitment 5 to 15; a promotion
\* threshold that is met stays met while the level stays.
C39_OverallNeverDecreases ==
    [][/\ TeamOverall(players') >= TeamOverall(players)
       /\ (SlotStep("trainPlayer") /\ alertMsg' = "Trained")
            => TeamOverall(players') = TeamOverall(players) + 1
       /\ (SlotStep("recruitPlayer") /\ alertMsg' = "Recruited")
            => TeamOverall(players') - TeamOverall(players) \in 5..15
       /\ (/\ FindTier(currentLeagueLevel + 1) # {}
           /\ currentLeagueLevel' = currentLeagueLevel
           /\ TeamOverall(players) >= NextLeague.promotionThresholdOverall)
            => TeamOverall(players') >= NextLeague.promotionThresholdOverall]_vars

\* C39 as amended: as C39, in every step but the page load after "Clear Save
\* & Restart Game", which may replace the roster by a generated lineup.
C39_OverallNeverDecreasesInGame ==
    [][~ResetStep
         => (/\ TeamOverall(players') >= TeamOverall(players)
             /\ (SlotStep("trainPlayer") /\ alertMsg' = "Trained")
                  => TeamOverall(players') = TeamOverall(players) + 1
             /\ (SlotStep("recruitPlayer") /\ alertMsg' = "Recruited")
                  => TeamOverall(players') - TeamOverall(players) \in 5..15
             /\ (/\ FindTier(currentLeagueLevel + 1) # {}
                 /\ currentLeagueLevel' = currentLeagueLevel
                 /\ TeamOverall(players) >= NextLeague.promotionThresholdOverall)
                  => TeamOverall(players') >= NextLeague.promotionThresholdOverall)]_vars

\* A squad that meets the threshold of the next tier was trained and meets it
\* still.
C39_Witness ==
    /\ lastOp = "trainPlayer"
    /\ alertMsg = "Trained"
    /\ FindTier(currentLeagueLevel + 1) # {}
    /\ TeamOverall(players) > NextLeague.promotionThresholdOverall

====
